---- MODULE Spec2Model ----
(***************************************************************************)
(* Appointment booking core of the clinic backend: the appointments table, *)
(* the Appointment model (checkAvailability, generateAppointmentNumber,    *)
(* create, update) and the AppointmentController handlers                  *)
(* (createAppointment, updateAppointment, cancelAppointment).  Every       *)
(* `await` of a handler is a point where another request may run, so each  *)
(* handler is a sequence of atomic steps separated by its store accesses.  *)
(***************************************************************************)
EXTENDS Integers, Sequences, FiniteSets, TLC

(***************************************************************************)
(* Bounds of the model.                                                    *)
(***************************************************************************)
NumProcs    == 2   \* requests that may be in flight at the same time
MaxRequests == 2   \* requests served in one behaviour
MaxScope    == 2   \* calendar months the clock runs through
MaxSlot     == 2   \* start instants 0, 15, ..., 15 * MaxSlot minutes

NULL == "NULL"   \* a NULL column or an absent text field
Absent == 0 - 1   \* a numeric field the request body does not carry
NoTime == 0       \* a NULL timestamp column
NoId   == 0       \* excludeAppointmentId = null

Procs == 1..NumProcs

(***************************************************************************)
(* Program constants.                                                      *)
(***************************************************************************)
PadWidth        == 4     \* padStart(4, '0')
DefaultDuration == 30    \* duration_minutes || 30, defaultTo(30)
SlotMinutes     == 15    \* smallest duration the schema admits

Statuses    == {"scheduled", "confirmed", "in_progress", "completed", "cancelled", "no_show"}
ActiveStatuses == {"scheduled", "confirmed", "in_progress"}
DefaultStatus  == "scheduled"
NoReasonProvided == "No reason provided"

Times     == {SlotMinutes * i : i \in 0..MaxSlot}
Durations == {SlotMinutes, 2 * SlotMinutes}
Reasons   == {"moved"}

(***************************************************************************)
(* The patients and users tables, which the booking handlers only read.    *)
(***************************************************************************)
Patients == {"p1"}
PatientIds == Patients \cup {"p0"}
Users == [d1 |-> [role |-> "doctor", status |-> "active"],
          d2 |-> [role |-> "doctor", status |-> "active"],
          d3 |-> [role |-> "doctor", status |-> "inactive"],
          n1 |-> [role |-> "nurse",  status |-> "active"]]
UserIds == DOMAIN Users \cup {"u0"}
Actors  == {"n1"}

PatientFindById(id) == IF id \in Patients THEN id ELSE NULL
UserExists(id) == id \in DOMAIN Users
UserFindById(id) == Users[id]

(***************************************************************************)
(* Strings of decimal digits, as sequences of digits.                      *)
(***************************************************************************)
RECURSIVE NumToString(_)
NumToString(n) == IF n < 10 THEN <<n>> ELSE Append(NumToString(n \div 10), n % 10)

RECURSIVE PadStart(_, _)
PadStart(s, w) == IF Len(s) >= w THEN s ELSE PadStart(<<0>> \o s, w)

RECURSIVE ParseInt(_)
ParseInt(s) == IF Len(s) = 0 THEN 0
               ELSE 10 * ParseInt(SubSeq(s, 1, Len(s) - 1)) + s[Len(s)]

\* string order: the first differing character decides, a proper prefix is smaller
RECURSIVE StrLess(_, _)
StrLess(s, t) == IF Len(t) = 0 THEN FALSE
                 ELSE IF Len(s) = 0 THEN TRUE
                 ELSE IF s[1] # t[1] THEN s[1] < t[1]
                 ELSE StrLess(Tail(s), Tail(t))

(***************************************************************************)
(* An appointment number is the prefix A<year><month> followed by the      *)
(* sequence digits.  Prefixes all have the same length, so a prefix is     *)
(* identified by its month (scope) and the string order of two numbers of  *)
(* one prefix is the string order of their digits.                         *)
(***************************************************************************)
Prefix(clock) == clock
MkNumber(prefix, digits) == [prefix |-> prefix, digits |-> digits]

VARIABLES store, now, served, pc, req, existingAppointment, num, result, data
vars == <<store, now, served, pc, req, existingAppointment, num, result, data>>

StoredIds == 1..Len(store)
Rows == {store[i] : i \in StoredIds}

(***************************************************************************)
(* Appointment.checkAvailability                                           *)
(***************************************************************************)
EndOf(a) == a.appointment_date + a.duration_minutes

\* the first branch with its upper comparison made inclusive
StartsDuringExisting_Inclusive(a, startTime, endTime) ==
    a.appointment_date <= startTime /\ EndOf(a) >= startTime

StartsDuringExisting(a, startTime, endTime) ==
    a.appointment_date <= startTime /\ EndOf(a) > startTime
\* the query without its second branch
EndsDuringExisting_Never(a, startTime, endTime) == FALSE

EndsDuringExisting(a, startTime, endTime) ==
    a.appointment_date < endTime /\ EndOf(a) >= endTime
ExistingWithinNew(a, startTime, endTime) ==
    a.appointment_date >= startTime /\ EndOf(a) <= endTime

\* the conflict query without the clause that leaves out the excluded appointment
Conflicts_NoExclusion(rows, doctorId, appointmentDate, durationMinutes, excludeAppointmentId) ==
    LET startTime == appointmentDate
        endTime   == appointmentDate + durationMinutes
    IN {a \in rows :
          /\ a.doctor_id = doctorId
          /\ a.status \in ActiveStatuses
          /\ \/ StartsDuringExisting(a, startTime, endTime)
             \/ EndsDuringExisting(a, startTime, endTime)
             \/ ExistingWithinNew(a, startTime, endTime)}

Conflicts(rows, doctorId, appointmentDate, durationMinutes, excludeAppointmentId) ==
    LET startTime == appointmentDate
        endTime   == appointmentDate + durationMinutes
    IN {a \in rows :
          /\ a.doctor_id = doctorId
          /\ a.status \in ActiveStatuses
          /\ \/ StartsDuringExisting(a, startTime, endTime)
             \/ EndsDuringExisting(a, startTime, endTime)
             \/ ExistingWithinNew(a, startTime, endTime)
          /\ (excludeAppointmentId # NoId => a.id # excludeAppointmentId)}

CheckAvailability(rows, doctorId, appointmentDate, durationMinutes, excludeAppointmentId) ==
    Conflicts(rows, doctorId, appointmentDate, durationMinutes, excludeAppointmentId) = {}

(***************************************************************************)
(* Appointment.generateAppointmentNumber                                   *)
(***************************************************************************)
\* the query without its like-prefix filter
WithPrefix_AnyMonth(rows, prefix) == rows

WithPrefix(rows, prefix) == {a \in rows : a.appointment_number.prefix = prefix}

\* orderBy('appointment_number', 'desc').first()
LastAppointment(rows, prefix) ==
    CHOOSE a \in WithPrefix(rows, prefix) :
        \A b \in WithPrefix(rows, prefix) :
            b = a \/ StrLess(b.appointment_number.digits, a.appointment_number.digits)
               \/ b.appointment_number = a.appointment_number

\* the next number taken from the count of the month's rows instead of the last one
GenerateAppointmentNumber_ByCount(rows, clock) ==
    MkNumber(Prefix(clock),
             PadStart(NumToString(Cardinality(WithPrefix(rows, Prefix(clock))) + 1), PadWidth))

GenerateAppointmentNumber(rows, clock) ==
    LET prefix == Prefix(clock)
        nextNumber == IF WithPrefix(rows, prefix) = {} THEN 1
                      ELSE ParseInt(LastAppointment(rows, prefix).appointment_number.digits) + 1
    IN MkNumber(prefix, PadStart(NumToString(nextNumber), PadWidth))

(***************************************************************************)
(* The appointments table: unique appointment_number, column defaults.     *)
(***************************************************************************)
\* the table without its unique constraint
UniqueViolation_Unchecked(rows, number) == FALSE

UniqueViolation(rows, number) == \E a \in rows : a.appointment_number = number

NewRow(id, appointmentData, number) ==
    [id |-> id,
     appointment_number |-> number,
     patient_id |-> appointmentData.patient_id,
     doctor_id |-> appointmentData.doctor_id,
     created_by |-> appointmentData.created_by,
     appointment_date |-> appointmentData.appointment_date,
     duration_minutes |-> IF appointmentData.duration_minutes = Absent THEN DefaultDuration
                          ELSE appointmentData.duration_minutes,
     status |-> DefaultStatus,
     confirmed_at |-> NoTime, started_at |-> NoTime, completed_at |-> NoTime,
     cancelled_at |-> NoTime, cancelled_by |-> NULL, cancellation_reason |-> NULL]

\* The table when the requests begin: empty, or holding the first booking of
\* the month, or holding the booking that took the last number of the 4-digit
\* range, its visit completed.
FirstRow == NewRow(1, [patient_id |-> "p1", doctor_id |-> "d1", created_by |-> "n1",
                       appointment_date |-> 0, duration_minutes |-> Absent],
                   MkNumber(1, PadStart(NumToString(1), PadWidth)))

SeedRow == [NewRow(1, [patient_id |-> "p1", doctor_id |-> "d1", created_by |-> "n1",
                       appointment_date |-> 0, duration_minutes |-> Absent],
                   MkNumber(1, NumToString(10 ^ PadWidth - 1)))
            EXCEPT !.status = "completed", !.completed_at = 1]

NoRequest == [op |-> "none"]
NoRow == [id |-> NoId]
NoNumber == MkNumber(0, <<>>)

Init ==
    /\ store \in {<<>>, <<FirstRow>>, <<SeedRow>>}
    /\ now = 1
    /\ served = 0
    /\ pc = [p \in Procs |-> "idle"]
    /\ req = [p \in Procs |-> NoRequest]
    /\ existingAppointment = [p \in Procs |-> NoRow]
    /\ num = [p \in Procs |-> NoNumber]
    /\ result = [p \in Procs |-> "none"]
    /\ data = [p \in Procs |-> NoRow]

\* a request enters a handler
Begin(p, body, first) ==
    /\ pc[p] = "idle"
    /\ served < MaxRequests
    /\ served' = served + 1
    /\ req' = [req EXCEPT ![p] = body]
    /\ pc' = [pc EXCEPT ![p] = first]
    /\ UNCHANGED <<store, now, existingAppointment, num, result, data>>

\* res.status(...).json(...): the handler has its response
Finish(p, res, row) ==
    /\ pc' = [pc EXCEPT ![p] = "done"]
    /\ result' = [result EXCEPT ![p] = res]
    /\ data' = [data EXCEPT ![p] = row]

Goto(p, label) ==
    /\ pc' = [pc EXCEPT ![p] = label]
    /\ UNCHANGED <<result, data>>

\* the response is sent and the request context is gone
Respond(p) ==
    /\ pc[p] = "done"
    /\ pc' = [pc EXCEPT ![p] = "idle"]
    /\ req' = [req EXCEPT ![p] = NoRequest]
    /\ existingAppointment' = [existingAppointment EXCEPT ![p] = NoRow]
    /\ num' = [num EXCEPT ![p] = NoNumber]
    /\ result' = [result EXCEPT ![p] = "none"]
    /\ data' = [data EXCEPT ![p] = NoRow]
    /\ UNCHANGED <<store, now, served>>

(***************************************************************************)
(* Request bodies.                                                         *)
(***************************************************************************)
CreateBodies(patients, doctors, actors, dates, durations) ==
    [op : {"create"}, patient_id : patients, doctor_id : doctors, created_by : actors,
     appointment_date : dates, duration_minutes : durations]

UpdateBodies(ids, actors, dates, durations, statuses, reasons) ==
    [op : {"update"}, id : ids, user : actors, appointment_date : dates,
     duration_minutes : durations, status : statuses, cancellation_reason : reasons]

CancelBodies(ids, actors, reasons) ==
    [op : {"cancel"}, id : ids, user : actors, cancellation_reason : reasons]

(***************************************************************************)
(* AppointmentController.createAppointment                                 *)
(***************************************************************************)
StartCreate(p, bodies) ==
    \E body \in bodies : Begin(p, body, "c_patient")

\* the patient lookup preceded by the availability check
CreateFindPatient_AfterAvailability(p) ==
    /\ pc[p] = "c_patient"
    /\ IF ~CheckAvailability(Rows, req[p].doctor_id, req[p].appointment_date,
                             IF req[p].duration_minutes = Absent THEN DefaultDuration
                             ELSE req[p].duration_minutes, NoId)
       THEN Finish(p, "Conflict", NoRow)
       ELSE IF PatientFindById(req[p].patient_id) = NULL
            THEN Finish(p, "NotFound", NoRow)
            ELSE Goto(p, "c_doctor")
    /\ UNCHANGED <<store, now, served, req, existingAppointment, num>>

CreateFindPatient(p) ==
    /\ pc[p] = "c_patient"
    /\ IF PatientFindById(req[p].patient_id) = NULL
       THEN Finish(p, "NotFound", NoRow)
       ELSE Goto(p, "c_doctor")
    /\ UNCHANGED <<store, now, served, req, existingAppointment, num>>

\* the doctor lookup without the test of the user's status
CreateFindDoctor_AnyStatus(p) ==
    /\ pc[p] = "c_doctor"
    /\ IF \/ ~UserExists(req[p].doctor_id)
          \/ UserFindById(req[p].doctor_id).role # "doctor"
       THEN Finish(p, "NotFound", NoRow)
       ELSE Goto(p, "c_avail")
    /\ UNCHANGED <<store, now, served, req, existingAppointment, num>>

CreateFindDoctor(p) ==
    /\ pc[p] = "c_doctor"
    /\ IF \/ ~UserExists(req[p].doctor_id)
          \/ UserFindById(req[p].doctor_id).role # "doctor"
          \/ UserFindById(req[p].doctor_id).status # "active"
       THEN Finish(p, "NotFound", NoRow)
       ELSE Goto(p, "c_avail")
    /\ UNCHANGED <<store, now, served, req, existingAppointment, num>>

\* an availability check that writes: it marks the appointments in its way as
\* no_show before it reports the conflict
CreateCheckAvailability_Writing(p) ==
    /\ pc[p] = "c_avail"
    /\ LET duration == IF req[p].duration_minutes = Absent THEN DefaultDuration
                       ELSE req[p].duration_minutes
           inTheWay == Conflicts(Rows, req[p].doctor_id, req[p].appointment_date, duration, NoId)
       IN IF inTheWay = {}
          THEN Goto(p, "c_number") /\ UNCHANGED store
          ELSE /\ Finish(p, "Conflict", NoRow)
               /\ store' = [i \in StoredIds |->
                              IF store[i] \in inTheWay
                              THEN [store[i] EXCEPT !.status = "no_show"] ELSE store[i]]
    /\ UNCHANGED <<now, served, req, existingAppointment, num>>

CreateCheckAvailability(p) ==
    /\ pc[p] = "c_avail"
    /\ LET duration == IF req[p].duration_minutes = Absent THEN DefaultDuration
                       ELSE req[p].duration_minutes
       IN IF CheckAvailability(Rows, req[p].doctor_id, req[p].appointment_date, duration, NoId)
          THEN Goto(p, "c_number")
          ELSE Finish(p, "Conflict", NoRow)
    /\ UNCHANGED <<store, now, served, req, existingAppointment, num>>

CreateGenerateNumber(p) ==
    /\ pc[p] = "c_number"
    /\ num' = [num EXCEPT ![p] = GenerateAppointmentNumber(Rows, now)]
    /\ Goto(p, "c_insert")
    /\ UNCHANGED <<store, now, served, req, existingAppointment>>

\* the insert tried again with a newly generated number for as long as the
\* table rejects it
CreateInsert_Retrying(p) ==
    /\ pc[p] = "c_insert"
    /\ IF UniqueViolation(Rows, num[p])
       THEN /\ Goto(p, "c_number")
            /\ UNCHANGED store
       ELSE /\ store' = Append(store, NewRow(Len(store) + 1, req[p], num[p]))
            /\ Finish(p, "Created", NewRow(Len(store) + 1, req[p], num[p]))
    /\ UNCHANGED <<now, served, req, existingAppointment, num>>

CreateInsert(p) ==
    /\ pc[p] = "c_insert"
    /\ IF UniqueViolation(Rows, num[p])
       THEN /\ Finish(p, "InternalError", NoRow)
            /\ UNCHANGED store
       ELSE /\ store' = Append(store, NewRow(Len(store) + 1, req[p], num[p]))
            /\ Finish(p, "Created", NewRow(Len(store) + 1, req[p], num[p]))
    /\ UNCHANGED <<now, served, req, existingAppointment, num>>

(***************************************************************************)
(* Appointment.update: the columns the patch carries are overwritten.      *)
(***************************************************************************)
Patched(old, new) == IF new = Absent THEN old ELSE new
PatchedText(old, new) == IF new = NULL THEN old ELSE new

\* the status switch without its in_progress case
StatusStamps_NoStart(row, status, user, clock) ==
    [row EXCEPT
       !.confirmed_at = IF status = "confirmed" THEN clock ELSE @,
       !.completed_at = IF status = "completed" THEN clock ELSE @,
       !.cancelled_at = IF status = "cancelled" THEN clock ELSE @,
       !.cancelled_by = IF status = "cancelled" THEN user ELSE @]

\* the status switch whose cancelled case records no acting user
StatusStamps_NoActor(row, status, user, clock) ==
    [row EXCEPT
       !.confirmed_at = IF status = "confirmed" THEN clock ELSE @,
       !.started_at   = IF status = "in_progress" THEN clock ELSE @,
       !.completed_at = IF status = "completed" THEN clock ELSE @,
       !.cancelled_at = IF status = "cancelled" THEN clock ELSE @]

\* the status switch of updateAppointment
StatusStamps(row, status, user, clock) ==
    [row EXCEPT
       !.confirmed_at = IF status = "confirmed" THEN clock ELSE @,
       !.started_at   = IF status = "in_progress" THEN clock ELSE @,
       !.completed_at = IF status = "completed" THEN clock ELSE @,
       !.cancelled_at = IF status = "cancelled" THEN clock ELSE @,
       !.cancelled_by = IF status = "cancelled" THEN user ELSE @]

\* an update whose patch also carries a doctor
UpdateRow_Reassigning(row, body, clock) ==
    [StatusStamps(row, body.status, body.user, clock) EXCEPT
       !.doctor_id = IF @ = "d1" THEN "d2" ELSE "d1",
       !.appointment_date = Patched(@, body.appointment_date),
       !.duration_minutes = Patched(@, body.duration_minutes),
       !.status = PatchedText(@, body.status),
       !.cancellation_reason = PatchedText(@, body.cancellation_reason)]

UpdateRow(row, body, clock) ==
    [StatusStamps(row, body.status, body.user, clock) EXCEPT
       !.appointment_date = Patched(@, body.appointment_date),
       !.duration_minutes = Patched(@, body.duration_minutes),
       !.status = PatchedText(@, body.status),
       !.cancellation_reason = PatchedText(@, body.cancellation_reason)]

\* the cancellation written without its timestamp
CancelRow_StatusOnly(row, body, clock) ==
    [row EXCEPT
       !.status = "cancelled",
       !.cancelled_by = body.user,
       !.cancellation_reason = IF body.cancellation_reason = NULL THEN NoReasonProvided
                               ELSE body.cancellation_reason]

CancelRow(row, body, clock) ==
    [row EXCEPT
       !.status = "cancelled",
       !.cancelled_at = clock,
       !.cancelled_by = body.user,
       !.cancellation_reason = IF body.cancellation_reason = NULL THEN NoReasonProvided
                               ELSE body.cancellation_reason]

(***************************************************************************)
(* AppointmentController.updateAppointment                                 *)
(***************************************************************************)
StartUpdate(p, bodies) ==
    \E body \in bodies : Begin(p, body, "u_find")

ChangesTime(body) == body.appointment_date # Absent \/ body.duration_minutes # Absent

UpdateFind(p) ==
    /\ pc[p] = "u_find"
    /\ IF req[p].id \notin StoredIds
       THEN /\ Finish(p, "NotFound", NoRow)
            /\ UNCHANGED existingAppointment
       ELSE /\ existingAppointment' = [existingAppointment EXCEPT ![p] = store[req[p].id]]
            /\ Goto(p, IF ChangesTime(req[p]) THEN "u_avail" ELSE "u_write")
    /\ UNCHANGED <<store, now, served, req, num>>

\* the availability check made for the window as stored, not as requested
UpdateCheckAvailability_StoredWindow(p) ==
    /\ pc[p] = "u_avail"
    /\ LET appointmentDate == existingAppointment[p].appointment_date
           duration == existingAppointment[p].duration_minutes
       IN IF CheckAvailability(Rows, existingAppointment[p].doctor_id, appointmentDate, duration, req[p].id)
          THEN Goto(p, "u_write")
          ELSE Finish(p, "Conflict", NoRow)
    /\ UNCHANGED <<store, now, served, req, existingAppointment, num>>

UpdateCheckAvailability(p) ==
    /\ pc[p] = "u_avail"
    /\ LET appointmentDate == Patched(existingAppointment[p].appointment_date, req[p].appointment_date)
           duration == Patched(existingAppointment[p].duration_minutes, req[p].duration_minutes)
       IN IF CheckAvailability(Rows, existingAppointment[p].doctor_id, appointmentDate, duration, req[p].id)
          THEN Goto(p, "u_write")
          ELSE Finish(p, "Conflict", NoRow)
    /\ UNCHANGED <<store, now, served, req, existingAppointment, num>>

UpdateWrite(p) ==
    /\ pc[p] = "u_write"
    /\ store' = [store EXCEPT ![req[p].id] = UpdateRow(@, req[p], now)]
    /\ Finish(p, "OK", UpdateRow(store[req[p].id], req[p], now))
    /\ UNCHANGED <<now, served, req, existingAppointment, num>>

(***************************************************************************)
(* AppointmentController.cancelAppointment                                 *)
(***************************************************************************)
StartCancel(p, bodies) ==
    \E body \in bodies : Begin(p, body, "x_find")

\* the lookup of cancelAppointment without the 404 for a missing appointment
CancelFind_Unchecked(p) ==
    /\ pc[p] = "x_find"
    /\ IF req[p].id \notin StoredIds
       THEN /\ Finish(p, "OK", NoRow)
            /\ UNCHANGED existingAppointment
       ELSE /\ existingAppointment' = [existingAppointment EXCEPT ![p] = store[req[p].id]]
            /\ IF store[req[p].id].status = "cancelled"
               THEN Finish(p, "AlreadyCancelled", NoRow)
               ELSE Goto(p, "x_write")
    /\ UNCHANGED <<store, now, served, req, num>>

CancelFind(p) ==
    /\ pc[p] = "x_find"
    /\ IF req[p].id \notin StoredIds
       THEN /\ Finish(p, "NotFound", NoRow)
            /\ UNCHANGED existingAppointment
       ELSE /\ existingAppointment' = [existingAppointment EXCEPT ![p] = store[req[p].id]]
            /\ IF store[req[p].id].status = "cancelled"
               THEN Finish(p, "AlreadyCancelled", NoRow)
               ELSE Goto(p, "x_write")
    /\ UNCHANGED <<store, now, served, req, num>>

\* the cancellation carried out as a removal of the row
CancelWrite_Deleting(p) ==
    /\ pc[p] = "x_write"
    /\ store' = SelectSeq(store, LAMBDA a : a.id # req[p].id)
    /\ Finish(p, "OK", NoRow)
    /\ UNCHANGED <<now, served, req, existingAppointment, num>>

CancelWrite(p) ==
    /\ pc[p] = "x_write"
    /\ store' = [store EXCEPT ![req[p].id] = CancelRow(@, req[p], now)]
    /\ Finish(p, "OK", NoRow)
    /\ UNCHANGED <<now, served, req, existingAppointment, num>>

(***************************************************************************)
(* The clock: the calendar month changes.                                  *)
(***************************************************************************)
Tick ==
    /\ now < MaxScope
    /\ now' = now + 1
    /\ UNCHANGED <<store, served, pc, req, existingAppointment, num, result, data>>

(***************************************************************************)
(* Requests running concurrently: any request may enter while others are   *)
(* between two of their store accesses.                                    *)
(***************************************************************************)
ConcCreates == CreateBodies({"p1"}, {"d1", "d2"}, Actors, {0, SlotMinutes}, {Absent})
ConcCancels == CancelBodies({1}, Actors, {NULL})

Next ==
    \/ \E p \in Procs : StartCreate(p, ConcCreates)
    \/ \E p \in Procs : CreateFindPatient(p)
    \/ \E p \in Procs : CreateFindDoctor(p)
    \/ \E p \in Procs : CreateCheckAvailability(p)
    \/ \E p \in Procs : CreateGenerateNumber(p)
    \/ \E p \in Procs : CreateInsert(p)
    \/ \E p \in Procs : StartCancel(p, ConcCancels)
    \/ \E p \in Procs : CancelFind(p)
    \/ \E p \in Procs : CancelWrite(p)
    \/ \E p \in Procs : Respond(p)
    \/ Tick

Spec == Init /\ [][Next]_vars

(***************************************************************************)
(* Requests executed one after another: the one request slot is taken      *)
(* again only after its response was sent.                                 *)
(***************************************************************************)
SeqIds == 1..MaxRequests
Reschedules == {b \in UpdateBodies(SeqIds, Actors, Times \cup {Absent}, Durations \cup {Absent},
                                   {NULL}, {NULL}) : ChangesTime(b)}
Transitions == UpdateBodies(SeqIds, Actors, {Absent}, {Absent}, Statuses, {NULL})

Bookings == CreateBodies({"p1"}, {"d1"}, Actors, Times, {SlotMinutes, Absent})
BadReferences == {b \in CreateBodies(PatientIds, UserIds \ {"d2"}, Actors, {0}, {Absent}) :
                    (b.patient_id = "p1") # (b.doctor_id = "d1")}

SeqCreates == Bookings \cup BadReferences
SeqUpdates == Reschedules \cup Transitions
SeqCancels == CancelBodies(SeqIds, Actors, Reasons \cup {NULL})

SeqNext ==
    \/ StartCreate(1, SeqCreates)
    \/ CreateFindPatient(1)
    \/ CreateFindDoctor(1)
    \/ CreateCheckAvailability(1)
    \/ CreateGenerateNumber(1)
    \/ CreateInsert(1)
    \/ StartUpdate(1, SeqUpdates)
    \/ UpdateFind(1)
    \/ UpdateCheckAvailability(1)
    \/ UpdateWrite(1)
    \/ StartCancel(1, SeqCancels)
    \/ CancelFind(1)
    \/ CancelWrite(1)
    \/ Respond(1)
    \/ Tick

SeqSpec == Init /\ [][SeqNext]_vars

(***************************************************************************)
(* Requests against a store whose accesses may fail: a rejected promise of *)
(* any awaited store access is caught by the handler's catch block, which  *)
(* answers 500.  Once an awaited access has settled the event loop resumes *)
(* the handler, which is the fairness assumed of the steps of a handler.   *)
(***************************************************************************)
HandlerLabels == {"c_patient", "c_doctor", "c_avail", "c_number", "c_insert",
                  "u_find", "u_avail", "u_write", "x_find", "x_write"}

StoreFails(p) ==
    /\ pc[p] \in HandlerLabels
    /\ Finish(p, "InternalError", NoRow)
    /\ UNCHANGED <<store, now, served, req, existingAppointment, num>>

HandlerStep(p) ==
    \/ CreateFindPatient(p)
    \/ CreateFindDoctor(p)
    \/ CreateCheckAvailability(p)
    \/ CreateGenerateNumber(p)
    \/ CreateInsert(p)
    \/ UpdateFind(p)
    \/ UpdateCheckAvailability(p)
    \/ UpdateWrite(p)
    \/ CancelFind(p)
    \/ CancelWrite(p)
    \/ StoreFails(p)

LiveCreates == CreateBodies({"p1"}, {"d1"}, Actors, {0}, {Absent})
LiveUpdates == UpdateBodies({1}, Actors, {SlotMinutes}, {Absent}, {"confirmed"}, {NULL})
LiveCancels == CancelBodies({1}, Actors, {NULL})

LiveNext ==
    \/ \E p \in Procs : StartCreate(p, LiveCreates)
    \/ \E p \in Procs : StartUpdate(p, LiveUpdates)
    \/ \E p \in Procs : StartCancel(p, LiveCancels)
    \/ \E p \in Procs : HandlerStep(p)
    \/ \E p \in Procs : Respond(p)

LiveSpec == Init /\ [][LiveNext]_vars /\ \A p \in Procs : WF_vars(HandlerStep(p))

(***************************************************************************)
(* The read side: Appointment.getDoctorSchedule and its handler, run on    *)
(* tables as earlier bookings, status changes and cancellations left them. *)
(* Start instants are minutes; a calendar day has DayMinutes of them, and  *)
(* endOf('day') is the last instant before the next midnight.              *)
(***************************************************************************)
DayMinutes == 1440

StartOfDay(date) == (date \div DayMinutes) * DayMinutes
EndOfDay(date) == StartOfDay(date) + DayMinutes - 1

\* the rows of the schedule query with the next midnight inside its range
DoctorScheduleRows_ThroughMidnight(rows, doctorId, date) ==
    {a \in rows : /\ a.doctor_id = doctorId
                  /\ a.appointment_date >= StartOfDay(date)
                  /\ a.appointment_date <= StartOfDay(date) + DayMinutes
                  /\ a.status \in {"scheduled", "confirmed", "in_progress"}}

\* where doctor_id / whereBetween [startOfDay, endOfDay] / whereIn status
DoctorScheduleRows(rows, doctorId, date) ==
    {a \in rows : /\ a.doctor_id = doctorId
                  /\ a.appointment_date >= StartOfDay(date)
                  /\ a.appointment_date <= EndOfDay(date)
                  /\ a.status \in {"scheduled", "confirmed", "in_progress"}}

\* orderBy('appointment_date', 'asc'): the orders the query may return its rows
\* in; rows of equal start come in any order
OrderedByDate(rows) ==
    {s \in [1..Cardinality(rows) -> rows] :
        /\ \A i, j \in 1..Cardinality(rows) : i # j => s[i] # s[j]
        /\ \A i, j \in 1..Cardinality(rows) :
              i < j => s[i].appointment_date <= s[j].appointment_date}

ScheduleBodies(doctors, dates) == [op : {"schedule"}, doctor_id : doctors, date : dates]

StartSchedule(p, bodies) ==
    \E body \in bodies : Begin(p, body, "s_query")

\* AppointmentController.getDoctorSchedule
GetDoctorSchedule(p) ==
    /\ pc[p] = "s_query"
    /\ IF req[p].date = Absent
       THEN Finish(p, "BadRequest", NoRow)
       ELSE \E schedule \in OrderedByDate(DoctorScheduleRows(Rows, req[p].doctor_id, req[p].date)) :
               Finish(p, "OK", schedule)
    /\ UNCHANGED <<store, now, served, req, existingAppointment, num>>

\* a stored row of the given doctor, start and status, written as the handlers
\* write it
StoredRow(id, doctorId, date, status) ==
    LET created == NewRow(id, [patient_id |-> "p1", doctor_id |-> doctorId, created_by |-> "n1",
                               appointment_date |-> date, duration_minutes |-> Absent],
                          MkNumber(1, PadStart(NumToString(id), PadWidth)))
        change == [op |-> "update", id |-> id, user |-> "n1", appointment_date |-> Absent,
                   duration_minutes |-> Absent, status |-> status, cancellation_reason |-> NULL]
    IN IF status = DefaultStatus THEN created
       ELSE IF status = "cancelled" THEN CancelRow(created, change, 1)
       ELSE UpdateRow(created, change, 1)

ScheduleDates == {0, DayMinutes - SlotMinutes, DayMinutes}
RowShapes == [doctor_id : {"d1", "d2"}, date : ScheduleDates,
              status : {"scheduled", "in_progress", "cancelled", "no_show"}]
ReadTables ==
    {[i \in DOMAIN f |-> StoredRow(i, f[i].doctor_id, f[i].date, f[i].status)] :
        f \in UNION {[1..n -> RowShapes] : n \in 0..MaxRequests}}

ReadInit ==
    /\ store \in ReadTables
    /\ now = 1
    /\ served = 0
    /\ pc = [p \in Procs |-> "idle"]
    /\ req = [p \in Procs |-> NoRequest]
    /\ existingAppointment = [p \in Procs |-> NoRow]
    /\ num = [p \in Procs |-> NoNumber]
    /\ result = [p \in Procs |-> "none"]
    /\ data = [p \in Procs |-> NoRow]

ScheduleQueries == ScheduleBodies({"d1", "d2"}, {Absent, 2 * SlotMinutes, DayMinutes})

ReadNext ==
    \/ StartSchedule(1, ScheduleQueries)
    \/ GetDoctorSchedule(1)
    \/ Respond(1)

ReadSpec == ReadInit /\ [][ReadNext]_vars

(***************************************************************************)
(* Requests executed one after another that book, move and cancel only:    *)
(* creates, updates without a status field, and cancels.                   *)
(***************************************************************************)
PlainCreates == CreateBodies({"p1"}, {"d1", "d2"}, Actors, Times, {SlotMinutes, Absent})

BookingNext ==
    \/ StartCreate(1, PlainCreates)
    \/ CreateFindPatient(1)
    \/ CreateFindDoctor(1)
    \/ CreateCheckAvailability(1)
    \/ CreateGenerateNumber(1)
    \/ CreateInsert(1)
    \/ StartUpdate(1, Reschedules)
    \/ UpdateFind(1)
    \/ UpdateCheckAvailability(1)
    \/ UpdateWrite(1)
    \/ StartCancel(1, SeqCancels)
    \/ CancelFind(1)
    \/ CancelWrite(1)
    \/ Respond(1)

BookingSpec == Init /\ [][BookingNext]_vars

(***************************************************************************)
(* The route chain of the appointment routes: authenticateToken for every   *)
(* route, then requireRole, then (for create and update) validateRequest,   *)
(* then the handler.  A request carries its Authorization header; req.user  *)
(* is unset until authenticateToken sets it.                                *)
(***************************************************************************)
AppointmentRoles == {"admin", "doctor", "nurse", "receptionist"}
Callers == {"d1", "d3", "n1", "u0"}
Tokens == [kind : {"missing", "malformed", "expired"}, userId : {NULL}]
             \cup [kind : {"valid"}, userId : Callers]

WithToken(body, token) ==
    [f \in DOMAIN body \cup {"token"} |-> IF f = "token" THEN token ELSE body[f]]

\* req.user = user: the handlers read req.user.id
WithUser(body, id) ==
    IF body.op = "create" THEN [body EXCEPT !.created_by = id] ELSE [body EXCEPT !.user = id]

\* the handler the route ends in
FirstLabel(body) ==
    IF body.op = "create" THEN "c_patient"
    ELSE IF body.op = "update" THEN "u_find" ELSE "x_find"

StartRequest(p, bodies) ==
    \E body \in bodies : Begin(p, body, "m_auth")

\* authenticateToken without its check of the user's status
AuthenticateToken_AnyStatus(p) ==
    /\ pc[p] = "m_auth"
    /\ LET token == req[p].token
       IN IF token.kind = "missing"
          THEN Finish(p, "Unauthorized", NoRow) /\ UNCHANGED req
          ELSE IF token.kind = "expired"
          THEN Finish(p, "Unauthorized", NoRow) /\ UNCHANGED req
          ELSE IF token.kind = "malformed"
          THEN Finish(p, "Forbidden", NoRow) /\ UNCHANGED req
          ELSE IF ~UserExists(token.userId)
          THEN Finish(p, "Unauthorized", NoRow) /\ UNCHANGED req
          ELSE /\ req' = [req EXCEPT ![p] = WithUser(@, token.userId)]
               /\ Goto(p, "m_role")
    /\ UNCHANGED <<store, now, served, existingAppointment, num>>

AuthenticateToken(p) ==
    /\ pc[p] = "m_auth"
    /\ LET token == req[p].token
       IN IF token.kind = "missing"
          THEN Finish(p, "Unauthorized", NoRow) /\ UNCHANGED req
          ELSE IF token.kind = "expired"
          THEN Finish(p, "Unauthorized", NoRow) /\ UNCHANGED req
          ELSE IF token.kind = "malformed"
          THEN Finish(p, "Forbidden", NoRow) /\ UNCHANGED req
          ELSE IF ~UserExists(token.userId)
          THEN Finish(p, "Unauthorized", NoRow) /\ UNCHANGED req
          ELSE IF UserFindById(token.userId).status # "active"
          THEN Finish(p, "Unauthorized", NoRow) /\ UNCHANGED req
          ELSE /\ req' = [req EXCEPT ![p] = WithUser(@, token.userId)]
               /\ Goto(p, "m_role")
    /\ UNCHANGED <<store, now, served, existingAppointment, num>>

\* requireRole(['admin', 'doctor', 'nurse', 'receptionist']); the bodies of the
\* model pass validateRequest, which follows it on the create and update routes
RequireRole(p) ==
    /\ pc[p] = "m_role"
    /\ LET user == UserFindById(req[p].token.userId)
       IN IF user.role \notin AppointmentRoles
          THEN Finish(p, "Forbidden", NoRow)
          ELSE Goto(p, FirstLabel(req[p]))
    /\ UNCHANGED <<store, now, served, req, existingAppointment, num>>

AuthBodies ==
    CreateBodies({"p1"}, {"d1"}, {NULL}, {0, SlotMinutes}, {Absent})
       \cup UpdateBodies({1}, {NULL}, {SlotMinutes}, {Absent}, {"confirmed"}, {NULL})
       \cup CancelBodies({1}, {NULL}, {NULL})
AuthRequests == {WithToken(body, token) : body \in AuthBodies, token \in Tokens}

AuthNext ==
    \/ StartRequest(1, AuthRequests)
    \/ AuthenticateToken(1)
    \/ RequireRole(1)
    \/ CreateFindPatient(1)
    \/ CreateFindDoctor(1)
    \/ CreateCheckAvailability(1)
    \/ CreateGenerateNumber(1)
    \/ CreateInsert(1)
    \/ UpdateFind(1)
    \/ UpdateCheckAvailability(1)
    \/ UpdateWrite(1)
    \/ CancelFind(1)
    \/ CancelWrite(1)
    \/ Respond(1)

AuthSpec == Init /\ [][AuthNext]_vars

(***************************************************************************)
(* The read side: Appointment.getUpcomingAppointments and its handler, run *)
(* on tables as earlier requests left them.  The clock is read in the      *)
(* minutes of appointment_date: the request comes at instant SlotMinutes,  *)
(* so a stored start lies before, at, or after the current time.           *)
(***************************************************************************)
DefaultLimit == 10
UpcomingStatuses == {"scheduled", "confirmed"}

\* the query with in_progress among the statuses it selects
UpcomingRows_WithInProgress(rows, clock) ==
    {a \in rows : /\ a.appointment_date >= clock
                  /\ a.status \in {"scheduled", "confirmed", "in_progress"}}

\* where appointment_date >= now / whereIn status
UpcomingRows(rows, clock) ==
    {a \in rows : /\ a.appointment_date >= clock
                  /\ a.status \in UpcomingStatuses}

\* limit(limit)
Limited(s, limit) == SubSeq(s, 1, IF limit < Len(s) THEN limit ELSE Len(s))

UpcomingBodies(limits) == [op : {"upcoming"}, limit : limits]

StartUpcoming(p, bodies) ==
    \E body \in bodies : Begin(p, body, "n_query")

\* AppointmentController.getUpcomingAppointments
GetUpcomingAppointments(p) ==
    /\ pc[p] = "n_query"
    /\ LET limit == IF req[p].limit = Absent THEN DefaultLimit ELSE req[p].limit
       IN \E appointments \in OrderedByDate(UpcomingRows(Rows, now)) :
             Finish(p, "OK", Limited(appointments, limit))
    /\ UNCHANGED <<store, now, served, req, existingAppointment, num>>

UpcomingShapes == [doctor_id : {"d1"}, date : Times,
                   status : {"scheduled", "confirmed", "in_progress", "completed"}]
UpcomingTables ==
    {[i \in DOMAIN f |-> StoredRow(i, f[i].doctor_id, f[i].date, f[i].status)] :
        f \in UNION {[1..n -> UpcomingShapes] : n \in 0..MaxRequests}}

UpcomingInit ==
    /\ store \in UpcomingTables
    /\ now = SlotMinutes
    /\ served = 0
    /\ pc = [p \in Procs |-> "idle"]
    /\ req = [p \in Procs |-> NoRequest]
    /\ existingAppointment = [p \in Procs |-> NoRow]
    /\ num = [p \in Procs |-> NoNumber]
    /\ result = [p \in Procs |-> "none"]
    /\ data = [p \in Procs |-> NoRow]

UpcomingQueries == UpcomingBodies({Absent} \cup 0..MaxRequests)

UpcomingNext ==
    \/ StartUpcoming(1, UpcomingQueries)
    \/ GetUpcomingAppointments(1)
    \/ Respond(1)

UpcomingSpec == UpcomingInit /\ [][UpcomingNext]_vars

(***************************************************************************)
(* Properties.                                                             *)
(***************************************************************************)
IsActive(a) == a.status \in ActiveStatuses
Overlaps(s1, e1, s2, e2) == s1 < e2 /\ s2 < e1
RowsOverlap(a, b) == Overlaps(a.appointment_date, EndOf(a), b.appointment_date, EndOf(b))

DoneCreate(p) == pc[p] = "done" /\ req[p].op = "create"
ValidReferences(body) ==
    /\ body.patient_id \in Patients
    /\ UserExists(body.doctor_id)
    /\ Users[body.doctor_id].role = "doctor"
    /\ Users[body.doctor_id].status = "active"
BodyDuration(body) ==
    IF body.duration_minutes = Absent THEN DefaultDuration ELSE body.duration_minutes
BodyEnd(body) == body.appointment_date + BodyDuration(body)

\* C1: in every reachable state no two non-terminal appointments of one doctor
\* have overlapping half-open windows [start, start + duration).
C1_NoOverlap ==
    \A i, j \in StoredIds :
        (i < j /\ store[i].doctor_id = store[j].doctor_id
               /\ IsActive(store[i]) /\ IsActive(store[j]))
        => ~RowsOverlap(store[i], store[j])

\* C2: two create requests for the same doctor and the identical window that run
\* concurrently never both succeed.  (Rows never return to a non-terminal status
\* under Spec, so two standing rows of one window were created by requests each
\* of which checked availability before the other inserted.)
C2_NeverBothSucceed ==
    \A p, q \in Procs :
        (/\ p # q /\ DoneCreate(p) /\ DoneCreate(q)
         /\ req[p].doctor_id = req[q].doctor_id
         /\ req[p].appointment_date = req[q].appointment_date
         /\ BodyDuration(req[p]) = BodyDuration(req[q])
         /\ result[p] = "Created"
         /\ IsActive(store[data[p].id]))
        => ~(result[q] = "Created" /\ IsActive(store[data[q].id]))

\* C3: executed one after another, a create whose window overlaps a standing
\* booking of the doctor fails with Conflict and adds no row, and a create whose
\* window only touches a standing booking at its boundary (and overlaps none)
\* succeeds.
OtherActive(p) ==
    {a \in Rows : a.doctor_id = req[p].doctor_id /\ IsActive(a) /\ a.id # data[p].id}
C3_OverlapRejectedTouchingAccepted ==
    \A p \in Procs :
        (DoneCreate(p) /\ ValidReferences(req[p])) =>
            LET s == req[p].appointment_date
                e == BodyEnd(req[p])
                overlapping == {a \in OtherActive(p) :
                                   Overlaps(a.appointment_date, EndOf(a), s, e)}
                touching == {a \in OtherActive(p) :
                                EndOf(a) = s \/ a.appointment_date = e}
            IN /\ overlapping # {} => (result[p] = "Conflict" /\ data[p] = NoRow)
               /\ (overlapping = {} /\ touching # {}) => result[p] = "Created"

\* C4: checkAvailability is true exactly when no stored non-terminal appointment
\* of the doctor, other than the excluded one, satisfies the single half-open
\* overlap test existing.start < candidate.end /\ candidate.start < existing.end.
\* (The function reads the table only, and every table reached is also held in
\* a state with no request in flight: the candidates are tried there.)
C4_BranchesAreOneOverlapTest ==
    (\A p \in Procs : pc[p] = "idle") =>
        LET rows == Rows
        IN \A doctorId \in {"d1", "d2"}, start \in Times, duration \in Durations,
              excludeId \in {NoId} \cup StoredIds :
               CheckAvailability(rows, doctorId, start, duration, excludeId)
               = ~\E a \in rows :
                     /\ a.doctor_id = doctorId
                     /\ IsActive(a)
                     /\ a.id # excludeId
                     /\ Overlaps(a.appointment_date, EndOf(a), start, start + duration)

\* an active booking with a free candidate touching it on either side and an
\* unavailable candidate that contains it
C4_Witness ==
    \E a \in Rows, start \in Times :
        /\ \A p \in Procs : pc[p] = "idle"
        /\ IsActive(a)
        /\ a.appointment_date > 0
        /\ CheckAvailability(Rows, a.doctor_id, EndOf(a), SlotMinutes, NoId)
        /\ CheckAvailability(Rows, a.doctor_id, a.appointment_date - SlotMinutes,
                             SlotMinutes, NoId)
        /\ start < a.appointment_date
        /\ start + 2 * SlotMinutes >= EndOf(a)
        /\ ~CheckAvailability(Rows, a.doctor_id, start, 2 * SlotMinutes, NoId)

\* C5: in every reachable state, concurrent creates that computed the same next
\* number included, no two stored appointments have the same appointment_number.
C5_UniqueNumbers ==
    \A i, j \in StoredIds :
        i # j => store[i].appointment_number # store[j].appointment_number

\* two concurrent creates computed the same number; one was stored, the other
\* rejected by the table
C5_Witness ==
    \E p, q \in Procs :
        /\ p # q /\ DoneCreate(p) /\ DoneCreate(q)
        /\ num[p] = num[q]
        /\ result[p] = "Created" /\ result[q] = "InternalError"

\* C6: a create whose insert lost the race for its appointment number is retried
\* and ends in success or, after the bound, in Conflict or Capacity; it never
\* ends in another failure kind.
C6_CollisionEndsInConflictOrCapacity ==
    \A p \in Procs :
        (DoneCreate(p) /\ ValidReferences(req[p]))
        => result[p] \in {"Created", "Conflict", "Capacity"}

\* C7: identifier generation never returns a number whose sequence part is
\* longer than 4 digits: when the greatest stored sequence of the month is 9999
\* it returns no number and the create ends with a Capacity error.
C7_CapacityFailsExplicitly ==
    \A p \in Procs :
        (req[p].op = "create" /\ num[p] # NoNumber)
        => Len(num[p].digits) = PadWidth

\* C8: the generated number is the prefix of the current month followed by
\* exactly 4 digits whose value is 1 when no stored number has that prefix and
\* otherwise the greatest stored sequence of that prefix plus 1.
GreatestSeq(rows, prefix) ==
    LET seqs == {ParseInt(a.appointment_number.digits) : a \in WithPrefix(rows, prefix)}
    IN IF seqs = {} THEN 0 ELSE CHOOSE n \in seqs : \A m \in seqs : m <= n
C8_NextIsGreatestPlusOne ==
    [][\A p \in Procs :
          (pc[p] = "c_number" /\ pc'[p] = "c_insert")
          => /\ num'[p].prefix = Prefix(now)
             /\ Len(num'[p].digits) = PadWidth
             /\ ParseInt(num'[p].digits) = GreatestSeq(Rows, Prefix(now)) + 1]_vars

\* C9: the numbers assigned by successive successful creates of one month are
\* pairwise distinct and each is greater than the one assigned before it (rows
\* are stored in the order of their creation).
C9_NumbersIncrease ==
    \A i, j \in StoredIds :
        (i < j /\ store[i].appointment_number.prefix = store[j].appointment_number.prefix)
        => ParseInt(store[i].appointment_number.digits)
           < ParseInt(store[j].appointment_number.digits)

\* two creates of one month with a cancellation or status change in between
C9_Witness ==
    \E i, j \in StoredIds :
        /\ i < j
        /\ store[i].appointment_number.prefix = store[j].appointment_number.prefix
        /\ store[i].appointment_number.digits = PadStart(<<1>>, PadWidth)
        /\ store[i].status # DefaultStatus
        /\ store[j].appointment_date = store[i].appointment_date

\* C10: an update with a status field succeeds only along an edge of the state
\* diagram; any other requested status fails with InvalidTransition.
Edges ==
    {<<"scheduled", "confirmed">>, <<"confirmed", "in_progress">>,
     <<"in_progress", "completed">>}
    \cup {<<st, "cancelled">> : st \in ActiveStatuses}
    \cup {<<st, "no_show">> : st \in {"scheduled", "confirmed"}}
C10_OnlyDiagramEdges ==
    \A p \in Procs :
        (pc[p] = "done" /\ req[p].op = "update" /\ req[p].status # NULL
         /\ existingAppointment[p] # NoRow)
        => IF <<existingAppointment[p].status, req[p].status>> \in Edges
           THEN result[p] = "OK"
           ELSE result[p] = "InvalidTransition"
                /\ store[req[p].id] = existingAppointment[p]

TerminalStatuses == Statuses \ ActiveStatuses

\* C11: once the status of an appointment is completed, cancelled or no_show, no
\* step of any operation changes that status.
C11_TerminalIsAbsorbing ==
    [][\A i \in StoredIds :
          store[i].status \in TerminalStatuses => store'[i].status = store[i].status]_vars

\* C12: a cancel of an already cancelled appointment answers AlreadyCancelled and
\* leaves the table as it is, and no step (of cancel or of an update to status
\* cancelled, whatever the interleaving) writes cancelled_at of an appointment
\* whose cancelled_at is already set.
WritesCancellation(p) ==
    \/ pc[p] = "x_write"
    \/ pc[p] = "u_write" /\ req[p].status = "cancelled"
C12_CancelledAtWrittenOnce ==
    [][\A p \in Procs :
          /\ (pc[p] = "x_find" /\ pc'[p] # "x_find" /\ req[p].id \in StoredIds
                 /\ store[req[p].id].status = "cancelled")
             => (pc'[p] = "done" /\ result'[p] = "AlreadyCancelled" /\ store' = store)
          /\ (WritesCancellation(p) /\ pc'[p] = "done")
             => store[req[p].id].cancelled_at = NoTime]_vars

\* the timestamp column that belongs to a status; scheduled and no_show have none
StampOf(row, status) ==
    CASE status = "confirmed"   -> row.confirmed_at
      [] status = "in_progress" -> row.started_at
      [] status = "completed"   -> row.completed_at
      [] status = "cancelled"   -> row.cancelled_at
      [] OTHER                  -> NoTime
StampedStatuses == {"confirmed", "in_progress", "completed", "cancelled"}

\* the status a request asks the appointment to enter, NULL when it asks for none
RequestedStatus(body) ==
    IF body.op = "cancel" THEN "cancelled"
    ELSE IF body.op = "update" THEN body.status ELSE NULL

\* process p takes the writing step of an update or of a cancel
WriteStep(p) == pc[p] \in {"u_write", "x_write"} /\ pc'[p] = "done"

\* C13: the write of a successful status transition sets, together with the
\* status, the timestamp of the status entered: confirmed_at for confirmed,
\* started_at for in_progress, completed_at for completed, cancelled_at for
\* cancelled.
C13_TransitionStampsItsTimestamp ==
    [][\A p \in Procs :
          (WriteStep(p) /\ RequestedStatus(req[p]) # NULL) =>
              LET written == store'[req[p].id]
              IN /\ result'[p] = "OK"
                 /\ written.status = RequestedStatus(req[p])
                 /\ written.status \in StampedStatuses
                    => StampOf(written, written.status) = now]_vars

\* an update moved a booking to in_progress in a later month than the one of
\* its creation, and started_at carries that month
C13_Witness ==
    \E p \in Procs :
        /\ pc[p] = "done" /\ req[p].op = "update" /\ req[p].status = "in_progress"
        /\ result[p] = "OK"
        /\ now > 1
        /\ store[req[p].id].status = "in_progress"
        /\ store[req[p].id].started_at = now

\* process p has the answer of a successful cancellation: a cancel, or an update
\* to status cancelled
DoneCancellation(p) ==
    pc[p] = "done" /\ result[p] = "OK" /\ RequestedStatus(req[p]) = "cancelled"

\* C14: after a successful cancellation, through cancel or through an update to
\* status cancelled, the appointment carries the acting user as cancelled_by and
\* as cancellation_reason the reason supplied, or "No reason provided" when the
\* request supplied none.
C14_CancellationRecordsActorAndReason ==
    \A p \in Procs :
        DoneCancellation(p) =>
            /\ store[req[p].id].cancelled_by = req[p].user
            /\ store[req[p].id].cancellation_reason
               = IF req[p].cancellation_reason = NULL THEN NoReasonProvided
                 ELSE req[p].cancellation_reason

\* C15: a create whose patient does not exist, or whose doctor does not exist,
\* is not a doctor or is not active, is rejected (NotFound) and none of its
\* steps changes the appointments table.
C15_BadReferenceRejected ==
    [][\A p \in Procs :
          (req[p].op = "create" /\ ~ValidReferences(req[p])) =>
              /\ store' = store
              /\ pc'[p] = "done" => (result'[p] = "NotFound" /\ data'[p] = NoRow)]_vars

\* a create for a doctor whose account is inactive was answered NotFound
C15_Witness ==
    \E p \in Procs :
        /\ DoneCreate(p)
        /\ req[p].patient_id \in Patients
        /\ UserExists(req[p].doctor_id)
        /\ Users[req[p].doctor_id].role = "doctor"
        /\ Users[req[p].doctor_id].status # "active"
        /\ result[p] = "NotFound"

\* C16: a create that passed the patient, doctor and availability checks and
\* obtained its number adds exactly one row, with status scheduled, the patient,
\* doctor, start and duration of the request (30 minutes when it gave none) and
\* the generated number, answers with that row, and changes no other row.
C16_CreateAddsTheRequestedRecord ==
    [][\A p \in Procs :
          (pc[p] = "c_insert" /\ pc'[p] = "done") =>
              /\ Len(store') = Len(store) + 1
              /\ \A i \in StoredIds : store'[i] = store[i]
              /\ LET added == store'[Len(store')]
                 IN /\ added.status = "scheduled"
                    /\ added.patient_id = req[p].patient_id
                    /\ added.doctor_id = req[p].doctor_id
                    /\ added.appointment_date = req[p].appointment_date
                    /\ added.duration_minutes = BodyDuration(req[p])
                    /\ added.appointment_number = num[p]
                    /\ result'[p] = "Created"
                    /\ data'[p] = added]_vars

\* process p has the answer of an update that changes the start or the duration
\* of a stored appointment
DoneReschedule(p) ==
    /\ pc[p] = "done" /\ req[p].op = "update" /\ ChangesTime(req[p])
    /\ existingAppointment[p] # NoRow

\* the window a reschedule asks for: the fields of the request, the missing one
\* taken from the appointment as it was stored
NewStart(p) == Patched(existingAppointment[p].appointment_date, req[p].appointment_date)
NewDuration(p) == Patched(existingAppointment[p].duration_minutes, req[p].duration_minutes)

\* the other non-terminal appointments of the doctor that overlap that window
OthersInNewWindow(p) ==
    {a \in Rows : /\ a.id # req[p].id
                  /\ a.doctor_id = existingAppointment[p].doctor_id
                  /\ IsActive(a)
                  /\ Overlaps(a.appointment_date, EndOf(a),
                              NewStart(p), NewStart(p) + NewDuration(p))}

\* C17: rescheduling a non-terminal appointment to a window that overlaps its
\* own current window and no other non-terminal appointment of its doctor
\* succeeds and stores the new window.
C17_SelfExclusion ==
    \A p \in Procs :
        (/\ DoneReschedule(p)
         /\ IsActive(existingAppointment[p])
         /\ Overlaps(existingAppointment[p].appointment_date, EndOf(existingAppointment[p]),
                     NewStart(p), NewStart(p) + NewDuration(p))
         /\ OthersInNewWindow(p) = {})
        => /\ result[p] = "OK"
           /\ store[req[p].id].appointment_date = NewStart(p)
           /\ store[req[p].id].duration_minutes = NewDuration(p)

\* a booking was moved to a later start inside its own previous window
C17_Witness ==
    \E p \in Procs :
        /\ DoneReschedule(p)
        /\ IsActive(existingAppointment[p])
        /\ NewStart(p) > existingAppointment[p].appointment_date
        /\ NewStart(p) < EndOf(existingAppointment[p])
        /\ result[p] = "OK"
        /\ store[req[p].id].appointment_date = NewStart(p)

\* C18: a reschedule that changes the start, the duration or both is checked for
\* the window that results (the field the request leaves out taken from the
\* stored appointment) against the appointment's own doctor: when that window
\* overlaps another non-terminal appointment of the doctor the answer is
\* Conflict and the stored appointment is as it was.
C18_RescheduleConflict ==
    \A p \in Procs :
        (DoneReschedule(p) /\ OthersInNewWindow(p) # {})
        => /\ result[p] = "Conflict"
           /\ store[req[p].id] = existingAppointment[p]

\* a reschedule that gave only a new start was refused because the window of
\* the new start and the stored duration reaches into another booking
C18_Witness ==
    \E p \in Procs :
        /\ DoneReschedule(p)
        /\ req[p].duration_minutes = Absent
        /\ req[p].appointment_date # existingAppointment[p].appointment_date
        /\ \E a \in OthersInNewWindow(p) :
               ~Overlaps(a.appointment_date, EndOf(a), NewStart(p), NewStart(p) + SlotMinutes)
        /\ result[p] = "Conflict"
        /\ store[req[p].id] = existingAppointment[p]

\* C19: an update (reschedule or status change) or a cancel for an id that is
\* not in the table is answered NotFound, and none of its steps changes the
\* table.
C19_MissingAppointmentNotFound ==
    [][\A p \in Procs :
          (req[p].op \in {"update", "cancel"} /\ req[p].id \notin StoredIds) =>
              /\ store' = store
              /\ pc'[p] = "done" => (result'[p] = "NotFound" /\ data'[p] = NoRow)]_vars

\* a request for the id after the last stored one was answered NotFound
C19_Witness ==
    \E p \in Procs :
        /\ pc[p] = "done" /\ req[p].op \in {"update", "cancel"}
        /\ store # <<>>
        /\ req[p].id = Len(store) + 1
        /\ result[p] = "NotFound"

Successes == {"Created", "OK"}

\* C20: every operation is all-or-nothing on the table.  A step changes the
\* table only as the last step of a request that is answered with success, so a
\* request answered with a failure has changed nothing; and within one step a
\* row enters confirmed, in_progress, completed or cancelled together with the
\* timestamp of that status, and a timestamp is written only together with its
\* status.
C20_AllOrNothing ==
    [][/\ store' # store =>
             \E p \in Procs : /\ pc[p] \in {"c_insert", "u_write", "x_write"}
                              /\ pc'[p] = "done"
                              /\ result'[p] \in Successes
       /\ \A p \in Procs :
             (pc[p] # "done" /\ pc'[p] = "done" /\ result'[p] \notin Successes)
             => store' = store
       /\ \A i \in StoredIds :
             /\ store'[i].status \in StampedStatuses
                => StampOf(store'[i], store'[i].status) # NoTime
             /\ (store'[i].status # store[i].status /\ store'[i].status \in StampedStatuses)
                => StampOf(store'[i], store'[i].status) = now
             /\ \A st \in StampedStatuses :
                   StampOf(store'[i], st) # StampOf(store[i], st) => store'[i].status = st]_vars

\* a second cancel was answered AlreadyCancelled and the row is as the first
\* cancel wrote it, cancelled with its timestamp
C20_Witness ==
    \E p \in Procs :
        /\ pc[p] = "done" /\ req[p].op = "cancel"
        /\ result[p] = "AlreadyCancelled"
        /\ store[req[p].id] = existingAppointment[p]
        /\ store[req[p].id].status = "cancelled"
        /\ store[req[p].id].cancelled_at # NoTime
        /\ store[req[p].id].appointment_number.digits # NumToString(10 ^ PadWidth - 1)

\* C21: no step of a create, update or cancel removes a row: every stored id
\* stays stored under the same key, and a cancel leaves its row in the table
\* with status cancelled.
C21_NoRowRemoved ==
    [][/\ Len(store') >= Len(store)
       /\ \A i \in StoredIds : store'[i].id = store[i].id
       /\ \A p \in Procs :
             (pc[p] = "x_write" /\ pc'[p] = "done")
             => /\ Len(store') = Len(store)
                /\ store'[req[p].id].status = "cancelled"]_vars

\* a cancel was answered with success and its row is still stored, cancelled
C21_Witness ==
    \E p \in Procs :
        /\ pc[p] = "done" /\ req[p].op = "cancel" /\ result[p] = "OK"
        /\ req[p].id \in StoredIds
        /\ store[req[p].id].id = req[p].id
        /\ store[req[p].id].status = "cancelled"
        /\ existingAppointment[p].status \in ActiveStatuses

\* the doctor's appointments in a terminal status whose window overlaps [s, e)
TerminalInWindow(doctorId, s, e) ==
    {a \in Rows : /\ a.doctor_id = doctorId
                  /\ a.status \in TerminalStatuses
                  /\ Overlaps(a.appointment_date, EndOf(a), s, e)}

\* C22: a terminal appointment does not occupy the calendar: a create, or a
\* reschedule of another appointment, for the same doctor into the window of a
\* completed, cancelled or no_show appointment succeeds when no non-terminal
\* appointment of the doctor overlaps the requested window.
C22_TerminalFreesTheSlot ==
    \A p \in Procs :
        /\ (/\ DoneCreate(p) /\ ValidReferences(req[p])
            /\ TerminalInWindow(req[p].doctor_id, req[p].appointment_date, BodyEnd(req[p])) # {}
            /\ \A a \in OtherActive(p) :
                  ~Overlaps(a.appointment_date, EndOf(a), req[p].appointment_date, BodyEnd(req[p])))
           => result[p] = "Created"
        /\ (/\ DoneReschedule(p)
            /\ \E a \in TerminalInWindow(existingAppointment[p].doctor_id, NewStart(p),
                                         NewStart(p) + NewDuration(p)) : a.id # req[p].id
            /\ OthersInNewWindow(p) = {})
           => result[p] = "OK"

C24_InvalidReferenceIsItsOwnKind ==
    \A p \in Procs :
        (/\ DoneCreate(p)
         /\ req[p].patient_id \in Patients
         /\ UserExists(req[p].doctor_id)
         /\ \/ Users[req[p].doctor_id].role # "doctor"
            \/ Users[req[p].doctor_id].status # "active")
        => result[p] = "InvalidReference"

\* C25: every stored appointment number has exactly 4 sequence digits with a
\* value in 1..9999, and so the number of a month that is greatest in string
\* order, the one the generator reads, is also the one of greatest value.
C25_FourDigitsKeepStringOrderNumeric ==
    /\ \A a \in Rows :
          /\ Len(a.appointment_number.digits) = PadWidth
          /\ ParseInt(a.appointment_number.digits) \in 1..(10 ^ PadWidth - 1)
    /\ \A prefix \in 1..MaxScope :
          WithPrefix(Rows, prefix) # {}
          => ParseInt(LastAppointment(Rows, prefix).appointment_number.digits)
             = GreatestSeq(Rows, prefix)

\* the arguments of the availability check a request is about to make
CheckDoctor(p) ==
    IF req[p].op = "create" THEN req[p].doctor_id ELSE existingAppointment[p].doctor_id
CheckStart(p) == IF req[p].op = "create" THEN req[p].appointment_date ELSE NewStart(p)
CheckDuration(p) == IF req[p].op = "create" THEN BodyDuration(req[p]) ELSE NewDuration(p)
CheckExclude(p) == IF req[p].op = "create" THEN NoId ELSE req[p].id

C27_ChecksInOrder ==
    \A p \in Procs :
        req[p].op = "create" =>
            /\ pc[p] = "c_doctor" => req[p].patient_id \in Patients
            /\ pc[p] \in {"c_avail", "c_number", "c_insert"} => ValidReferences(req[p])
            /\ num[p] # NoNumber => (ValidReferences(req[p]) /\ pc[p] \in {"c_insert", "done"})
            /\ (pc[p] = "done" /\ ~ValidReferences(req[p])) => result[p] = "NotFound"
            /\ (pc[p] = "done" /\ result[p] \in {"NotFound", "Conflict"})
               => (num[p] = NoNumber /\ data[p] = NoRow)

\* a create for a missing patient into a taken window was answered NotFound
C27_Witness ==
    \E p \in Procs :
        /\ DoneCreate(p)
        /\ req[p].patient_id \notin Patients
        /\ ~CheckAvailability(Rows, req[p].doctor_id, req[p].appointment_date,
                              BodyDuration(req[p]), NoId)
        /\ result[p] = "NotFound"
        /\ num[p] = NoNumber

DayOf(date) == date \div DayMinutes

\* C28: the schedule of a doctor for a date holds exactly the stored
\* appointments of that doctor that start on the calendar day of the date and
\* are scheduled, confirmed or in_progress, each once, in ascending order of
\* start; no terminal appointment and no appointment of another doctor or day
\* is in it.
C28_ScheduleIsTheDoctorsActiveDay ==
    \A p \in Procs :
        (pc[p] = "done" /\ req[p].op = "schedule" /\ req[p].date # Absent) =>
            LET schedule == data[p]
                expected == {a \in Rows : /\ a.doctor_id = req[p].doctor_id
                                          /\ DayOf(a.appointment_date) = DayOf(req[p].date)
                                          /\ IsActive(a)}
            IN /\ result[p] = "OK"
               /\ {schedule[i] : i \in 1..Len(schedule)} = expected
               /\ Len(schedule) = Cardinality(expected)
               /\ \A i, j \in 1..Len(schedule) :
                     i < j => schedule[i].appointment_date <= schedule[j].appointment_date

\* a schedule of two appointments, the one stored later starting earlier
C28_Witness ==
    \E p \in Procs :
        /\ pc[p] = "done" /\ req[p].op = "schedule" /\ result[p] = "OK"
        /\ Len(data[p]) = 2
        /\ data[p][1].id > data[p][2].id
        /\ data[p][1].appointment_date < data[p][2].appointment_date

\* C29: with requests executed one at a time that are creates, reschedules
\* without a status field and cancels only, the non-terminal appointments of
\* one doctor have pairwise disjoint windows in every reachable state.
C29_SequentialBookingsAreDisjoint ==
    \A a, b \in Rows :
        (a.id # b.id /\ a.doctor_id = b.doctor_id /\ IsActive(a) /\ IsActive(b))
        => (EndOf(a) <= b.appointment_date \/ EndOf(b) <= a.appointment_date)

\* a reschedule moved a booking next to another booking of the same doctor:
\* the two windows touch and do not overlap
C29_Witness ==
    \E p \in Procs, a, b \in Rows :
        /\ DoneReschedule(p) /\ result[p] = "OK"
        /\ a.id = req[p].id /\ b.id # a.id
        /\ a.doctor_id = b.doctor_id /\ IsActive(a) /\ IsActive(b)
        /\ a # existingAppointment[p]
        /\ EndOf(a) = b.appointment_date

\* C30: no step changes the doctor, the patient, the creator or the
\* appointment number of a stored appointment: updates (reschedules and status
\* changes) and cancels leave these four fields of every row as they were.
C30_IdentityFieldsAreImmutable ==
    [][\A i \in StoredIds :
          /\ store'[i].doctor_id = store[i].doctor_id
          /\ store'[i].patient_id = store[i].patient_id
          /\ store'[i].created_by = store[i].created_by
          /\ store'[i].appointment_number = store[i].appointment_number]_vars

\* an update changed the window or the status of a row and the row has the
\* doctor, patient, creator and number it had
C30_Witness ==
    \E p \in Procs :
        /\ pc[p] = "done" /\ req[p].op = "update" /\ result[p] = "OK"
        /\ store[req[p].id] # existingAppointment[p]
        /\ store[req[p].id].doctor_id = existingAppointment[p].doctor_id
        /\ store[req[p].id].patient_id = existingAppointment[p].patient_id
        /\ store[req[p].id].created_by = existingAppointment[p].created_by
        /\ store[req[p].id].appointment_number = existingAppointment[p].appointment_number

\* C31: in every reachable state cancelled_at is set exactly when cancelled_by
\* is set, every cancelled appointment has both set, and every appointment whose
\* status is confirmed, in_progress or completed has confirmed_at, started_at or
\* completed_at set respectively.
C31_StampsAgreeWithStatus ==
    \A a \in Rows :
       /\ (a.cancelled_at # NoTime) <=> (a.cancelled_by # NULL)
       /\ a.status = "cancelled" => (a.cancelled_at # NoTime /\ a.cancelled_by # NULL)
       /\ a.status = "confirmed" => a.confirmed_at # NoTime
       /\ a.status = "in_progress" => a.started_at # NoTime
       /\ a.status = "completed" => a.completed_at # NoTime

\* an update to status cancelled was written on a row that an earlier update
\* had confirmed
C31_Witness ==
    /\ pc[1] = "done" /\ result[1] = "OK"
    /\ req[1].op = "update" /\ req[1].status = "cancelled"
    /\ store[req[1].id].status = "cancelled"
    /\ store[req[1].id].cancelled_by = req[1].user
    /\ store[req[1].id].confirmed_at # NoTime

\* the rows whose number carries the prefix of a month, and their sequence numbers
InScope(prefix) == {a \in Rows : a.appointment_number.prefix = prefix}
SequenceNumbers(prefix) == {ParseInt(a.appointment_number.digits) : a \in InScope(prefix)}
Scopes == 1..MaxScope
\* the month is not full: the last number of the 4-digit range is not taken
\* (the table that starts with that number stands for a month of 9999 rows)
NotFull(prefix) == \A n \in SequenceNumbers(prefix) : n < 10 ^ PadWidth - 1

\* C32: when creates are executed one at a time and fewer than 9999 appointments
\* exist in a (year, month) scope, the sequence numbers stored for that scope are
\* exactly 1..n without gaps, n being the number of successful creates in that
\* scope; only the insert of a successful create takes a number, and it takes
\* one: failed creates, cancels, reschedules and transitions consume none.
C32_NumbersAreGapless ==
    /\ [](\A prefix \in Scopes :
            NotFull(prefix) =>
               /\ SequenceNumbers(prefix) = 1..Cardinality(InScope(prefix))
               /\ \A a, b \in InScope(prefix) :
                     a.appointment_number = b.appointment_number => a = b)
    /\ [][\A prefix \in Scopes :
             (NotFull(prefix) /\ SequenceNumbers(prefix)' # SequenceNumbers(prefix)) =>
                /\ pc[1] = "c_insert" /\ result'[1] = "Created"
                /\ num[1].prefix = prefix
                /\ SequenceNumbers(prefix)' =
                      SequenceNumbers(prefix) \cup {Cardinality(InScope(prefix)) + 1}]_vars

\* the second create of a month succeeded after the month's first booking, and
\* took the number 2
C32_Witness ==
    /\ DoneCreate(1) /\ result[1] = "Created"
    /\ Len(store) = 2
    /\ store[1].appointment_number.prefix = store[2].appointment_number.prefix
    /\ SequenceNumbers(store[2].appointment_number.prefix) = {1, 2}

\* the non-terminal appointments of other doctors that overlap the window a
\* create asks for
OtherDoctorsInWindow(p) ==
    {a \in Rows : /\ a.doctor_id # req[p].doctor_id /\ IsActive(a)
                  /\ Overlaps(a.appointment_date, EndOf(a),
                              req[p].appointment_date, BodyEnd(req[p]))}

\* C33: availability is scoped to the doctor.  Appointments of other doctors
\* never cause a Conflict: a create with valid references for a doctor who has
\* no non-terminal appointment overlapping the requested window succeeds although
\* the window is occupied for another doctor, also when the appointment there is
\* for the same patient.
C33_AvailabilityIsPerDoctor ==
    \A p \in Procs :
        (/\ DoneCreate(p) /\ ValidReferences(req[p])
         /\ OtherDoctorsInWindow(p) # {}
         /\ \A a \in OtherActive(p) :
               ~Overlaps(a.appointment_date, EndOf(a), req[p].appointment_date, BodyEnd(req[p])))
        => result[p] = "Created"

\* the caller of a request is an authenticated user with status active and one
\* of the roles of the appointment routes
Authorized(body) ==
    /\ body.token.kind = "valid"
    /\ UserExists(body.token.userId)
    /\ Users[body.token.userId].status = "active"
    /\ Users[body.token.userId].role \in AppointmentRoles
Rejections == {"Unauthorized", "Forbidden"}

\* C34: no appointment record is created or modified by a request whose caller
\* is not an authenticated user with status active and a role in admin, doctor,
\* nurse, receptionist: such a request never reaches the create, update or
\* cancel handler, is answered with a rejection, and leaves the store unchanged.
C34_OnlyAuthorizedCallersWrite ==
    /\ [](\A p \in Procs :
            (req[p].op # "none" /\ ~Authorized(req[p])) =>
               /\ pc[p] \notin HandlerLabels
               /\ (pc[p] = "done" => result[p] \in Rejections))
    /\ [][\A p \in Procs :
             (pc'[p] # pc[p] /\ req[p].op # "none" /\ ~Authorized(req[p])) =>
                store' = store]_vars
    /\ [][store' # store =>
             \E p \in Procs : pc'[p] # pc[p] /\ req[p].op # "none" /\ Authorized(req[p])]_vars

\* the cancel of a deactivated user was rejected although the appointment it
\* names is stored, after the create of an active user had been let through
C34_Witness ==
    /\ pc[1] = "done" /\ req[1].op = "cancel"
    /\ req[1].token.kind = "valid" /\ req[1].token.userId = "d3"
    /\ result[1] = "Unauthorized" /\ req[1].id \in StoredIds
    /\ \E a \in Rows : a.created_by = "d1"

DoneUpcoming(p) == pc[p] = "done" /\ req[p].op = "upcoming" /\ result[p] = "OK"
\* the appointments that are scheduled or confirmed and start now or later
Eligible == {a \in Rows : a.status \in {"scheduled", "confirmed"} /\ a.appointment_date >= now}
AskedLimit(p) == IF req[p].limit = Absent THEN DefaultLimit ELSE req[p].limit

\* C35: getUpcomingAppointments(limit) returns at most limit appointments, each
\* returned once, all with status scheduled or confirmed and a start not earlier
\* than the current time, in ascending start order, and they are the earliest
\* such appointments in the store: as many as the limit admits, none of them
\* later than an appointment left out.  in_progress and terminal appointments
\* never appear.
C35_UpcomingAreTheEarliestOpen ==
    \A p \in Procs :
        DoneUpcoming(p) =>
            LET out == data[p]
                n == Len(out)
            IN /\ n <= AskedLimit(p)
               /\ \A i \in 1..n : out[i] \in Eligible
               /\ \A i \in 1..n : out[i].status \notin {"in_progress"} \cup TerminalStatuses
               /\ \A i, j \in 1..n : i < j =>
                     (out[i] # out[j] /\ out[i].appointment_date <= out[j].appointment_date)
               /\ n = (IF AskedLimit(p) < Cardinality(Eligible) THEN AskedLimit(p)
                       ELSE Cardinality(Eligible))
               /\ \A a \in Eligible :
                     (\A i \in 1..n : out[i] # a) =>
                         \A i \in 1..n : out[i].appointment_date <= a.appointment_date

\* the limit cut the answer short: of two open appointments that start now or
\* later, the one returned starts at the current time
C35_Witness ==
    \E p \in Procs :
        /\ DoneUpcoming(p) /\ req[p].limit = 1
        /\ Cardinality(Eligible) = 2
        /\ Len(data[p]) = 1 /\ data[p][1].appointment_date = now
        /\ \E a \in Eligible : a.appointment_date > now
====
